---- MODULE Spec2Model ----
(***************************************************************************)
(* EIPBootstrapper (src/leap/services/eip/eipbootstrapper.py): a QThread   *)
(* that runs a queue of checks (_download_config, then                     *)
(* _download_client_certificates) and emits one signal per check.          *)
(*                                                                         *)
(* Two threads are modelled: the worker (QThread.run) and the owner (the   *)
(* GUI thread calling run_eip_setup_checks, start and set_should_quit).    *)
(* Each action is one statement, or one group of statements that touches   *)
(* shared state once, so every interleaving the GIL allows is explored.    *)
(*                                                                         *)
(* QtCore.QMutexLocker(lock) written as a bare expression statement        *)
(* (lines 80, 88, 235) builds a temporary whose constructor locks and      *)
(* whose destructor, run when the statement ends, unlocks: the statement   *)
(* waits for the mutex and gives it back at once.  Only the               *)
(* "with QtCore.QMutexLocker(lock):" blocks (lines 96, 251) keep the mutex *)
(* for the statements under them.                                          *)
(***************************************************************************)
EXTENDS Integers, Sequences, FiniteSets, TLC

\* Number of run_eip_setup_checks calls that install a queue.
MaxRuns == 2

\* Provider domains the owner may configure.
Providers == {"p1", "p2"}

None == "None"

Worker == "worker"
Owner == "owner"
Free == "free"

ConfigStep == "download_config"
CertStep == "download_client_certificate"

VARIABLES
    checks,            \* self._checks: sequence of [step, run]
    checksLock,        \* holder of self._checks_lock
    shouldQuit,        \* self._should_quit
    quitLock,          \* holder of self._should_quit_lock
    providerConfig,    \* self._provider_config
    eipConfig,         \* self._eip_config
    downloadIfNeeded,  \* self._download_if_needed
    disk,              \* files present: <<kind, domain>>
    wpc,               \* worker position in run() and in the step it executes
    check,             \* run(): the popped check, None outside a step
    data,              \* the step's result dict {passed, error}
    shouldContinue,    \* run(): shouldContinue
    checkSomething,    \* run(): checkSomething
    clientCertPath,    \* _download_client_certificates: client_cert_path
    res,               \* the step's HTTP response: the provider that served it
    opc,               \* owner position
    argProvider,       \* run_eip_setup_checks: provider_config argument
    argFlag,           \* run_eip_setup_checks: download_if_needed argument
    nruns,             \* queues installed so far (names the run of a step)
    log,               \* history: steps begun and signals emitted, in order
    seenProv,          \* history: provider contexts read by the step in flight
    netCalls,          \* history: session.get calls made by the step in flight
    exitCause,         \* history: why run() last returned
    stopped,           \* history: set_should_quit returned, no start() since
    failedSince,       \* history: a step reported failure, no queue installed since
    restart,           \* history: <<phase, run>> of a configure + start made
                       \* after a completed run, "none" after any other call
    quitAt,            \* history: Len(log) when set_should_quit set the flag
                       \* during a step, 0 otherwise and after start()
    resumeHead         \* history: head of the queue when start() launched
                       \* run(), until the first loop iteration is over

vars == <<checks, checksLock, shouldQuit, quitLock, providerConfig, eipConfig,
          downloadIfNeeded, disk, wpc, check, data, shouldContinue,
          checkSomething, clientCertPath, res, opc, argProvider, argFlag, nruns,
          log, seenProv, netCalls, exitCause, stopped, failedSince, restart,
          quitAt, resumeHead>>

sharedVars == <<checks, checksLock, shouldQuit, quitLock, providerConfig,
                eipConfig, downloadIfNeeded, disk>>
workerVars == <<wpc, check, data, shouldContinue, checkSomething,
                clientCertPath, res>>
ownerVars == <<opc, argProvider, argFlag>>
histVars == <<nruns, log, seenProv, netCalls, exitCause, stopped, failedSince,
              restart, quitAt, resumeHead>>

NoCheck == [step |-> None, run |-> 0]
NoData == [passed |-> FALSE, error |-> ""]
\* self._eip_config = None (line 69)
NoEIPConfig == [present |-> FALSE, loaded |-> FALSE, domain |-> None, run |-> 0]
NoPath == <<None, None>>

\* The file a step persists, keyed by provider domain.
ConfigFile(domain) == <<"eip-service.json", domain>>
CertFile(domain) == <<"openvpn.pem", domain>>

\* __init__ (lines 52-70)
Init ==
    /\ checks = <<>>
    /\ checksLock = Free
    /\ shouldQuit = FALSE
    /\ quitLock = Free
    /\ providerConfig = None
    /\ eipConfig = NoEIPConfig
    /\ downloadIfNeeded = FALSE
    /\ disk = {}
    /\ wpc = "off"
    /\ check = NoCheck
    /\ data = NoData
    /\ shouldContinue = FALSE
    /\ checkSomething = FALSE
    /\ clientCertPath = NoPath
    /\ res = None
    /\ opc = "idle"
    /\ argProvider = None
    /\ argFlag = FALSE
    /\ nruns = 0
    /\ log = <<>>
    /\ seenProv = {}
    /\ netCalls = 0
    /\ exitCause = "none"
    /\ stopped = FALSE
    /\ failedSince = FALSE
    /\ restart = <<"none", 0>>
    /\ quitAt = 0
    /\ resumeHead = NoCheck

Passed == [passed |-> TRUE, error |-> ""]
Failed == [passed |-> FALSE, error |-> "err"]

Begin(c) == [ev |-> "begin", step |-> c.step, run |-> c.run, passed |-> FALSE]
Emit(channel, c, d) ==
    [ev |-> "emit", step |-> channel, run |-> c.run, passed |-> d.passed]

\* EIPConfig() (line 119): a fresh descriptor, nothing loaded.
NewEIPConfig(r) ==
    [present |-> TRUE, loaded |-> FALSE, domain |-> None, run |-> r]

\* Worker positions inside check() (lines 101-219).
StepPcs == {"dc_assert", "dc_new", "dc_skip", "dc_get", "dc_load", "dc_save",
            "dc_emit", "cc_assert", "cc_path", "cc_skip", "cc_get",
            "cc_write", "cc_emit"}
\* Worker positions at a network or file call of a step.
IOPcs == {"dc_get", "dc_load", "dc_save", "cc_get", "cc_write"}
InStep == wpc \in StepPcs

IsEmit(e, step, r) == e.ev = "emit" /\ e.step = step /\ e.run = r
IsBegin(e, step, r) == e.ev = "begin" /\ e.step = step /\ e.run = r

(***************************************************************************)
(* An exception that leaves check() unwinds the with block of run()        *)
(* (line 251, releasing _checks_lock) and ends run(): the thread finishes. *)
(***************************************************************************)
Raise ==
    /\ wpc' = "off"
    /\ checksLock' = Free
    /\ exitCause' = "exception"
    /\ check' = NoCheck
    /\ data' = NoData
    /\ seenProv' = {}
    /\ netCalls' = 0

---------------------------------------------------------------------------
(* run(), lines 241-263 *)

\* get_should_quit, line 80: the locker temporary takes and returns the lock.
W_QuitLocker ==
    /\ wpc = "gsq_locker"
    /\ quitLock = Free
    /\ wpc' = "gsq_read"
    /\ UNCHANGED <<sharedVars, check, data, shouldContinue, checkSomething,
                   clientCertPath, res, ownerVars, histVars>>

\* W_ReadQuit without lines 247-249: the loop never looks at the flag.
W_ReadQuit_IgnoresFlag ==
    /\ wpc = "gsq_read"
    /\ wpc' = "with_enter"
    /\ checkSomething' = FALSE
    /\ UNCHANGED <<sharedVars, check, data, shouldContinue, clientCertPath,
                   res, ownerVars, histVars>>

\* get_should_quit, line 81, and run(), lines 247-250.
W_ReadQuit ==
    /\ wpc = "gsq_read"
    /\ IF shouldQuit
       THEN /\ wpc' = "off"
            /\ exitCause' = "quit"
            /\ UNCHANGED checkSomething
       ELSE /\ wpc' = "with_enter"
            /\ checkSomething' = FALSE
            /\ UNCHANGED exitCause
    /\ UNCHANGED <<sharedVars, check, data, shouldContinue, clientCertPath,
                   res, ownerVars, nruns, log, seenProv, netCalls, stopped,
                   failedSince,
                   restart,
                   quitAt, resumeHead>>

\* line 251: with QMutexLocker(self._checks_lock)
W_AcquireChecks ==
    /\ wpc = "with_enter"
    /\ checksLock = Free
    /\ checksLock' = Worker
    /\ wpc' = "len"
    /\ UNCHANGED <<checks, shouldQuit, quitLock, providerConfig, eipConfig,
                   downloadIfNeeded, disk, check, data, shouldContinue,
                   checkSomething, clientCertPath, res, ownerVars, histVars>>

\* line 252: if len(self._checks) > 0
W_Len ==
    /\ wpc = "len"
    /\ wpc' = IF Len(checks) > 0 THEN "pop" ELSE "with_exit"
    /\ UNCHANGED <<sharedVars, check, data, shouldContinue, checkSomething,
                   clientCertPath, res, ownerVars, histVars>>

\* W_Pop taking the last check, pop() for pop(0).
W_Pop_Last ==
    /\ wpc = "pop"
    /\ check' = checks[Len(checks)]
    /\ checks' = SubSeq(checks, 1, Len(checks) - 1)
    /\ wpc' = IF checks[Len(checks)].step = ConfigStep
              THEN "dc_assert" ELSE "cc_assert"
    /\ data' = NoData
    /\ log' = Append(log, Begin(checks[Len(checks)]))
    /\ seenProv' = {}
    /\ netCalls' = 0
    /\ UNCHANGED <<checksLock, shouldQuit, quitLock, providerConfig, eipConfig,
                   downloadIfNeeded, disk, shouldContinue, checkSomething,
                   clientCertPath, res, ownerVars, nruns, exitCause, stopped,
                   failedSince, restart, quitAt, resumeHead>>

\* line 253: check = self._checks.pop(0); line 254 enters check()
W_Pop ==
    /\ wpc = "pop"
    /\ check' = Head(checks)
    /\ checks' = Tail(checks)
    /\ wpc' = IF Head(checks).step = ConfigStep THEN "dc_assert" ELSE "cc_assert"
    /\ data' = NoData
    /\ log' = Append(log, Begin(Head(checks)))
    /\ seenProv' = {}
    /\ netCalls' = 0
    /\ UNCHANGED <<checksLock, shouldQuit, quitLock, providerConfig, eipConfig,
                   downloadIfNeeded, disk, shouldContinue, checkSomething,
                   clientCertPath, res, ownerVars, nruns, exitCause, stopped,
                   failedSince,
                   restart,
                   quitAt, resumeHead>>

\* lines 254-256: shouldContinue = check(); checkSomething = True
W_AfterCheck ==
    /\ wpc = "ret"
    /\ shouldContinue' = data.passed
    /\ checkSomething' = TRUE
    /\ wpc' = IF data.passed THEN "with_exit" ELSE "clear"
    /\ UNCHANGED <<sharedVars, check, data, clientCertPath, res, ownerVars,
                   histVars>>

\* W_Clear without line 260: the failure leaves the queue as it is.
W_Clear_KeepsQueue ==
    /\ wpc = "clear"
    /\ checkSomething' = FALSE
    /\ wpc' = "with_exit"
    /\ UNCHANGED <<sharedVars, check, data, shouldContinue, clientCertPath,
                   res, ownerVars, histVars>>

\* lines 260-261: self._checks = []; checkSomething = False
W_Clear ==
    /\ wpc = "clear"
    /\ checks' = <<>>
    /\ checkSomething' = FALSE
    /\ wpc' = "with_exit"
    /\ UNCHANGED <<checksLock, shouldQuit, quitLock, providerConfig, eipConfig,
                   downloadIfNeeded, disk, check, data, shouldContinue,
                   clientCertPath, res, ownerVars, histVars>>

\* end of the with block (line 261/262): the lock is released
W_Release ==
    /\ wpc = "with_exit"
    /\ checksLock' = Free
    /\ wpc' = IF checkSomething THEN "gsq_locker" ELSE "sleep"
    /\ check' = NoCheck
    /\ data' = NoData
    /\ clientCertPath' = NoPath
    /\ res' = None
    /\ seenProv' = {}
    /\ netCalls' = 0
    /\ resumeHead' = NoCheck
    /\ UNCHANGED <<checks, shouldQuit, quitLock, providerConfig, eipConfig,
                   downloadIfNeeded, disk, shouldContinue, checkSomething,
                   ownerVars, nruns, log, exitCause, stopped, failedSince,
                   restart, quitAt>>

\* line 263: self.usleep(IDLE_SLEEP_INTERVAL)
W_Sleep ==
    /\ wpc = "sleep"
    /\ wpc' = "gsq_locker"
    /\ UNCHANGED <<sharedVars, check, data, shouldContinue, checkSomething,
                   clientCertPath, res, ownerVars, histVars>>

---------------------------------------------------------------------------
(* _download_config, lines 101-156 *)

\* line 109: assert self._provider_config
DC_Assert ==
    /\ wpc = "dc_assert"
    /\ IF providerConfig = None
       THEN /\ Raise
            /\ UNCHANGED <<checks, shouldQuit, quitLock, providerConfig,
                           eipConfig, downloadIfNeeded, disk, shouldContinue,
                           checkSomething, clientCertPath, res, ownerVars,
                           nruns, log, stopped, failedSince,
                   restart,
                   quitAt, resumeHead>>
       ELSE /\ wpc' = "dc_new"
            /\ seenProv' = seenProv \cup {providerConfig}
            /\ UNCHANGED <<sharedVars, check, data, shouldContinue,
                           checkSomething, clientCertPath, res, ownerVars,
                           nruns, log, netCalls, exitCause, stopped,
                           failedSince,
                   restart,
                   quitAt, resumeHead>>

\* DC_NewEIPConfig without line 119: no descriptor object is created.
DC_NewEIPConfig_Skips ==
    /\ wpc = "dc_new"
    /\ data' = NoData
    /\ wpc' = "dc_skip"
    /\ UNCHANGED <<sharedVars, check, shouldContinue, checkSomething,
                   clientCertPath, res, ownerVars, histVars>>

\* lines 114-119: download_config_data = {passed: False, error: ""};
\* self._eip_config = EIPConfig()
DC_NewEIPConfig ==
    /\ wpc = "dc_new"
    /\ data' = NoData
    /\ eipConfig' = NewEIPConfig(check.run)
    /\ wpc' = "dc_skip"
    /\ UNCHANGED <<checks, checksLock, shouldQuit, quitLock, providerConfig,
                   downloadIfNeeded, disk, check, shouldContinue,
                   checkSomething, clientCertPath, res, ownerVars, histVars>>

\* DC_SkipCheck without lines 121-129: the descriptor is always fetched.
DC_SkipCheck_NeverSkips ==
    /\ wpc = "dc_skip"
    /\ wpc' = "dc_get"
    /\ UNCHANGED <<sharedVars, check, data, shouldContinue, checkSomething,
                   clientCertPath, res, ownerVars, histVars>>

\* lines 121-129: skip when download_if_needed and the descriptor exists
DC_SkipCheck ==
    /\ wpc = "dc_skip"
    /\ IF downloadIfNeeded
       THEN /\ seenProv' = seenProv \cup {providerConfig}
            /\ IF ConfigFile(providerConfig) \in disk
               THEN data' = Passed /\ wpc' = "dc_emit"
               ELSE UNCHANGED data /\ wpc' = "dc_get"
       ELSE /\ wpc' = "dc_get"
            /\ UNCHANGED <<data, seenProv,
                   restart,
                   quitAt, resumeHead>>
    /\ UNCHANGED <<sharedVars, check, shouldContinue, checkSomething,
                   clientCertPath, res, ownerVars, nruns, log, netCalls,
                   exitCause, stopped, failedSince,
                   restart,
                   quitAt, resumeHead>>

\* lines 132-141: session.get(api_uri/api_version/config/eip-service.json,
\* verify=ca_cert_path); raise_for_status(); the except of line 150 catches
DC_Get ==
    /\ wpc = "dc_get"
    /\ seenProv' = seenProv \cup {providerConfig}
    /\ netCalls' = netCalls + 1
    /\ \E ok \in BOOLEAN :
         IF ok
         THEN res' = providerConfig /\ wpc' = "dc_load" /\ UNCHANGED data
         ELSE data' = Failed /\ wpc' = "dc_emit" /\ UNCHANGED res
    /\ UNCHANGED <<sharedVars, check, shouldContinue, checkSomething,
                   clientCertPath, ownerVars, nruns, log, exitCause, stopped,
                   failedSince,
                   restart,
                   quitAt, resumeHead>>

\* line 143: self._eip_config.load(data=eip_definition)
DC_Load ==
    /\ wpc = "dc_load"
    /\ \E ok \in BOOLEAN :
         IF ok
         THEN /\ eipConfig' = [eipConfig EXCEPT !.loaded = TRUE, !.domain = res]
              /\ wpc' = "dc_save"
              /\ UNCHANGED data
         ELSE /\ data' = Failed
              /\ wpc' = "dc_emit"
              /\ UNCHANGED eipConfig
    /\ UNCHANGED <<checks, checksLock, shouldQuit, quitLock, providerConfig,
                   downloadIfNeeded, disk, check, shouldContinue,
                   checkSomething, clientCertPath, res, ownerVars, histVars>>

\* lines 144-149: self._eip_config.save([leap, providers, domain,
\* eip-service.json]); passed = True
DC_Save ==
    /\ wpc = "dc_save"
    /\ seenProv' = seenProv \cup {providerConfig}
    /\ \E ok \in BOOLEAN :
         IF ok
         THEN /\ disk' = disk \cup {ConfigFile(providerConfig)}
              /\ data' = Passed
         ELSE /\ data' = Failed
              /\ UNCHANGED disk
    /\ wpc' = "dc_emit"
    /\ UNCHANGED <<checks, checksLock, shouldQuit, quitLock, providerConfig,
                   eipConfig, downloadIfNeeded, check, shouldContinue,
                   checkSomething, clientCertPath, res, ownerVars, nruns, log,
                   netCalls, exitCause, stopped, failedSince,
                   restart,
                   quitAt, resumeHead>>

\* lines 128-129 and 154-156: self.download_config.emit(data); return passed
DC_Emit ==
    /\ wpc = "dc_emit"
    /\ log' = Append(log, Emit(ConfigStep, check, data))
    /\ failedSince' = (failedSince \/ ~data.passed)
    /\ wpc' = "ret"
    /\ UNCHANGED <<sharedVars, check, data, shouldContinue, checkSomething,
                   clientCertPath, res, ownerVars, nruns, seenProv, netCalls,
                   exitCause, stopped,
                   restart,
                   quitAt, resumeHead>>

---------------------------------------------------------------------------
(* _download_client_certificates, lines 158-219 *)

\* lines 165-166: assert self._provider_config; assert self._eip_config
CC_Assert ==
    /\ wpc = "cc_assert"
    /\ IF providerConfig = None \/ ~eipConfig.present
       THEN /\ Raise
            /\ UNCHANGED <<checks, shouldQuit, quitLock, providerConfig,
                           eipConfig, downloadIfNeeded, disk, shouldContinue,
                           checkSomething, clientCertPath, res, ownerVars,
                           nruns, log, stopped, failedSince,
                   restart,
                   quitAt, resumeHead>>
       ELSE /\ wpc' = "cc_path"
            /\ data' = NoData
            /\ seenProv' = seenProv \cup {providerConfig}
            /\ UNCHANGED <<sharedVars, check, shouldContinue, checkSomething,
                           clientCertPath, res, ownerVars, nruns, log,
                           netCalls, exitCause, stopped, failedSince,
                   restart,
                   quitAt, resumeHead>>

\* EIPConfig.get_client_cert_path (leap.services.eip.eipconfig): whether the
\* path computation raises.
GetClientCertPathOutcomes == {"path", "raise"}

\* lines 171-178: download_cert = {passed: False, error: ""};
\* client_cert_path = self._eip_config.get_client_cert_path(provider, True)
\* The call stands before the try of line 186: what it raises leaves check().
CC_Path ==
    /\ wpc = "cc_path"
    /\ \E outcome \in GetClientCertPathOutcomes :
         IF outcome = "raise"
         THEN /\ Raise
              /\ UNCHANGED <<clientCertPath>>
         ELSE /\ clientCertPath' = CertFile(providerConfig)
              /\ seenProv' = seenProv \cup {providerConfig}
              /\ wpc' = "cc_skip"
              /\ UNCHANGED <<checksLock, check, data, netCalls, exitCause,
                   restart,
                   quitAt, resumeHead>>
    /\ UNCHANGED <<checks, shouldQuit, quitLock, providerConfig, eipConfig,
                   downloadIfNeeded, disk, shouldContinue, checkSomething,
                   res, ownerVars, nruns, log, stopped, failedSince,
                   restart,
                   quitAt, resumeHead>>

\* lines 180-184: skip when download_if_needed and the certificate exists
CC_SkipCheck ==
    /\ wpc = "cc_skip"
    /\ IF downloadIfNeeded /\ clientCertPath \in disk
       THEN data' = Passed /\ wpc' = "cc_emit"
       ELSE UNCHANGED data /\ wpc' = "cc_get"
    /\ UNCHANGED <<sharedVars, check, shouldContinue, checkSomething,
                   clientCertPath, res, ownerVars, histVars>>

\* lines 187-195: session.get(api_uri/api_version/cert/, verify=ca_cert_path);
\* raise_for_status(); the except of line 212 catches
CC_Get ==
    /\ wpc = "cc_get"
    /\ seenProv' = seenProv \cup {providerConfig}
    /\ netCalls' = netCalls + 1
    /\ \E ok \in BOOLEAN :
         IF ok
         THEN res' = providerConfig /\ wpc' = "cc_write" /\ UNCHANGED data
         ELSE data' = Failed /\ wpc' = "cc_emit" /\ UNCHANGED res
    /\ UNCHANGED <<sharedVars, check, shouldContinue, checkSomething,
                   clientCertPath, ownerVars, nruns, log, exitCause, stopped,
                   failedSince,
                   restart,
                   quitAt, resumeHead>>

\* lines 199-211: os.makedirs(dirname) tolerating EEXIST; open(path, "w");
\* f.write(client_cert); passed = True
CC_Write ==
    /\ wpc = "cc_write"
    /\ \E ok \in BOOLEAN :
         IF ok
         THEN /\ disk' = disk \cup {clientCertPath}
              /\ data' = Passed
         ELSE /\ data' = Failed
              /\ UNCHANGED disk
    /\ wpc' = "cc_emit"
    /\ UNCHANGED <<checks, checksLock, shouldQuit, quitLock, providerConfig,
                   eipConfig, downloadIfNeeded, check, shouldContinue,
                   checkSomething, clientCertPath, res, ownerVars, histVars>>

\* lines 183-184 and 217-219: self.download_client_certificate.emit(data)
CC_Emit ==
    /\ wpc = "cc_emit"
    /\ log' = Append(log, Emit(CertStep, check, data))
    /\ failedSince' = (failedSince \/ ~data.passed)
    /\ wpc' = "ret"
    /\ UNCHANGED <<sharedVars, check, data, shouldContinue, checkSomething,
                   clientCertPath, res, ownerVars, nruns, seenProv, netCalls,
                   exitCause, stopped,
                   restart,
                   quitAt, resumeHead>>

---------------------------------------------------------------------------
(* run_eip_setup_checks, lines 221-239 *)

\* The last run is over: both its steps passed, or a step reported failure
\* and the worker cleared the queue.
RunComplete ==
    /\ Len(log) > 0
    /\ log[Len(log)].ev = "emit"
    /\ \/ log[Len(log)].step = CertStep /\ log[Len(log)].passed
       \/ ~log[Len(log)].passed /\ wpc \notin {"ret", "clear"}
    /\ checks = <<>>

\* the owner calls run_eip_setup_checks(provider_config, download_if_needed)
O_CallRunEipSetupChecks ==
    /\ opc = "idle"
    /\ nruns < MaxRuns
    /\ \E p \in Providers \cup {None}, f \in BOOLEAN :
         /\ argProvider' = p
         /\ argFlag' = f
    /\ opc' = "rc_assert"
    /\ restart' = <<IF RunComplete THEN "call" ELSE "none", 0>>
    /\ UNCHANGED <<sharedVars, workerVars, nruns, log, seenProv, netCalls, exitCause, stopped,
                   failedSince,
                   quitAt, resumeHead>>

\* RC_Assert without lines 228-230: any argument is accepted.
RC_Assert_NoAssert ==
    /\ opc = "rc_assert"
    /\ opc' = "rc_provider"
    /\ UNCHANGED <<sharedVars, workerVars, argProvider, argFlag, histVars>>

\* lines 228-230: assert provider_config; assert isinstance(...)
RC_Assert ==
    /\ opc = "rc_assert"
    /\ opc' = IF argProvider = None THEN "idle" ELSE "rc_provider"
    /\ restart' = IF argProvider = None THEN <<"none", 0>> ELSE restart
    /\ UNCHANGED <<sharedVars, workerVars, argProvider, argFlag, nruns, log, seenProv, netCalls, exitCause, stopped,
                   failedSince,
                   quitAt, resumeHead>>

\* RC_SetProvider without line 232: the argument is not stored.
RC_SetProvider_Skips ==
    /\ opc = "rc_provider"
    /\ opc' = "rc_flag"
    /\ UNCHANGED <<sharedVars, workerVars, argProvider, argFlag, histVars>>

\* line 232: self._provider_config = provider_config
RC_SetProvider ==
    /\ opc = "rc_provider"
    /\ providerConfig' = argProvider
    /\ opc' = "rc_flag"
    /\ UNCHANGED <<checks, checksLock, shouldQuit, quitLock, eipConfig,
                   downloadIfNeeded, disk, workerVars, argProvider, argFlag,
                   histVars>>

\* line 233: self._download_if_needed = download_if_needed
RC_SetFlag ==
    /\ opc = "rc_flag"
    /\ downloadIfNeeded' = argFlag
    /\ opc' = "rc_locker"
    /\ UNCHANGED <<checks, checksLock, shouldQuit, quitLock, providerConfig,
                   eipConfig, disk, workerVars, argProvider, argFlag,
                   histVars>>

\* line 235: QtCore.QMutexLocker(self._checks_lock), a temporary: the call
\* waits for the lock and returns it before line 236 runs
RC_Locker ==
    /\ opc = "rc_locker"
    /\ checksLock = Free
    /\ opc' = "rc_checks"
    /\ UNCHANGED <<sharedVars, workerVars, argProvider, argFlag, histVars>>

\* lines 236-239: self._checks = [_download_config,
\* _download_client_certificates]
RC_SetChecks ==
    /\ opc = "rc_checks"
    /\ checks' = <<[step |-> ConfigStep, run |-> nruns + 1],
                   [step |-> CertStep, run |-> nruns + 1]>>
    /\ nruns' = nruns + 1
    /\ failedSince' = FALSE
    /\ restart' = IF restart[1] = "call"
                  THEN <<"installed", nruns + 1>> ELSE <<"none", 0>>
    /\ opc' = "idle"
    /\ UNCHANGED <<checksLock, shouldQuit, quitLock, providerConfig,
                   eipConfig, downloadIfNeeded, disk, workerVars, argProvider,
                   argFlag, log, seenProv, netCalls, exitCause, stopped,
                   quitAt, resumeHead>>

---------------------------------------------------------------------------
(* start, lines 92-99 *)

\* line 96: with QMutexLocker(self._should_quit_lock)
ST_Lock ==
    /\ opc = "idle"
    /\ quitLock = Free
    /\ quitLock' = Owner
    /\ stopped' = FALSE
    /\ restart' = IF restart[1] \in {"installed", "started"}
                  THEN <<"installed", restart[2]>> ELSE <<"none", 0>>
    /\ quitAt' = 0
    /\ opc' = "st_write"
    /\ UNCHANGED <<checks, checksLock, shouldQuit, providerConfig, eipConfig,
                   downloadIfNeeded, disk, workerVars, argProvider, argFlag,
                   nruns, log, seenProv, netCalls, exitCause, failedSince,
                   resumeHead>>

\* ST_Write that also empties the queue, as if start() began a new run.
ST_Write_ClearsChecks ==
    /\ opc = "st_write"
    /\ shouldQuit' = FALSE
    /\ checks' = <<>>
    /\ quitLock' = Free
    /\ opc' = "st_thread"
    /\ UNCHANGED <<checksLock, providerConfig, eipConfig, downloadIfNeeded,
                   disk, workerVars, argProvider, argFlag, histVars>>

\* line 97: self._should_quit = False, then the with block ends
ST_Write ==
    /\ opc = "st_write"
    /\ shouldQuit' = FALSE
    /\ quitLock' = Free
    /\ opc' = "st_thread"
    /\ UNCHANGED <<checks, checksLock, providerConfig, eipConfig,
                   downloadIfNeeded, disk, workerVars, argProvider, argFlag,
                   histVars>>

\* line 99: QtCore.QThread.start(self): launches run() unless it is running
ST_ThreadStart ==
    /\ opc = "st_thread"
    /\ IF wpc = "off"
       THEN /\ wpc' = "gsq_locker"
            /\ shouldContinue' = FALSE
            /\ resumeHead' = IF checks = <<>> THEN NoCheck ELSE Head(checks)
       ELSE UNCHANGED <<wpc, shouldContinue, resumeHead>>
    /\ restart' = IF restart[1] = "installed"
                  THEN <<"started", restart[2]>> ELSE restart
    /\ opc' = "idle"
    /\ UNCHANGED <<sharedVars, check, data, checkSomething, clientCertPath,
                   res, argProvider, argFlag, nruns, log, seenProv, netCalls,
                   exitCause, stopped, failedSince, quitAt>>

---------------------------------------------------------------------------
(* set_should_quit, lines 83-90 *)

\* line 88: QtCore.QMutexLocker(self._should_quit_lock), a temporary
SQ_Locker ==
    /\ opc = "idle"
    /\ quitLock = Free
    /\ opc' = "sq_write"
    /\ restart' = <<"none", 0>>
    /\ UNCHANGED <<sharedVars, workerVars, argProvider, argFlag, nruns, log, seenProv, netCalls, exitCause, stopped,
                   failedSince,
                   quitAt, resumeHead>>

\* line 89: self._should_quit = True
SQ_Write ==
    /\ opc = "sq_write"
    /\ shouldQuit' = TRUE
    /\ quitAt' = IF wpc \in StepPcs THEN Len(log) ELSE 0
    /\ opc' = "sq_wait"
    /\ UNCHANGED <<checks, checksLock, quitLock, providerConfig, eipConfig,
                   downloadIfNeeded, disk, workerVars, argProvider, argFlag,
                   nruns, log, seenProv, netCalls, exitCause, stopped,
                   failedSince, restart, resumeHead>>

\* SQ_Wait without line 90: set_should_quit returns without waiting.
SQ_Wait_NoWait ==
    /\ opc = "sq_wait"
    /\ stopped' = TRUE
    /\ opc' = "idle"
    /\ UNCHANGED <<sharedVars, workerVars, argProvider, argFlag, nruns, log,
                   seenProv, netCalls, exitCause, failedSince,
                   restart,
                   quitAt, resumeHead>>

\* line 90: self.wait() returns once run() has returned (at once when the
\* thread is not running)
SQ_Wait ==
    /\ opc = "sq_wait"
    /\ wpc = "off"
    /\ stopped' = TRUE
    /\ opc' = "idle"
    /\ UNCHANGED <<sharedVars, workerVars, argProvider, argFlag, nruns, log,
                   seenProv, netCalls, exitCause, failedSince,
                   restart,
                   quitAt, resumeHead>>

---------------------------------------------------------------------------

WorkerNext ==
    \/ W_QuitLocker \/ W_ReadQuit \/ W_AcquireChecks \/ W_Len \/ W_Pop
    \/ W_AfterCheck \/ W_Clear \/ W_Release \/ W_Sleep
    \/ DC_Assert \/ DC_NewEIPConfig \/ DC_SkipCheck \/ DC_Get \/ DC_Load
    \/ DC_Save \/ DC_Emit
    \/ CC_Assert \/ CC_Path \/ CC_SkipCheck \/ CC_Get \/ CC_Write \/ CC_Emit

OwnerNext ==
    \/ O_CallRunEipSetupChecks \/ RC_Assert \/ RC_SetProvider \/ RC_SetFlag
    \/ RC_Locker \/ RC_SetChecks
    \/ ST_Lock \/ ST_Write \/ ST_ThreadStart
    \/ SQ_Locker \/ SQ_Write \/ SQ_Wait

Next == WorkerNext \/ OwnerNext

Spec == Init /\ [][Next]_vars

\* The worker is a thread of its own: the scheduler runs it whenever it is
\* not waiting for a mutex.
FairSpec == Spec /\ WF_vars(WorkerNext)

\* As FairSpec, and the owner thread goes on with a set_should_quit call it
\* has begun (lines 89-90).
FairStopSpec == Spec /\ WF_vars(WorkerNext) /\ WF_vars(SQ_Write \/ SQ_Wait)

---------------------------------------------------------------------------
(* Properties *)


\* C1: halt on failure.  When download_config of a run reported
\* passed=false, download_client_certificate of that run is never begun and
\* never emitted; and from a reported failure until the next installation of
\* a queue by run_eip_setup_checks no step executes, the queue being empty
\* once the worker is past its clearing statement.
C1_HaltOnFailure ==
    /\ \A i \in DOMAIN log :
         (log[i].ev = "emit" /\ log[i].step = ConfigStep /\ ~log[i].passed)
            => \A j \in DOMAIN log :
                 ~(log[j].step = CertStep /\ log[j].run = log[i].run)
    /\ failedSince => ~InStep /\ wpc # "pop"
    /\ (failedSince /\ wpc \notin {"ret", "clear"}) => checks = <<>>

\* C1 witness: download_config failed, the worker cleared the queue, went
\* on polling, and nothing has been installed since.
C1_Witness ==
    /\ failedSince
    /\ wpc = "sleep"
    /\ \E i \in DOMAIN log :
         log[i].ev = "emit" /\ log[i].step = ConfigStep /\ ~log[i].passed

\* C2: ordering.  Steps run in queue order and one at a time: every signal
\* is emitted by the step begun last, a step begins only when the step begun
\* before it has emitted its signal, and download_client_certificate of a
\* run begins only directly after download_config of that run emitted
\* passed=true, so the certificate signal of a run never precedes the config
\* signal of that run.
C2_Ordering ==
    \A i \in DOMAIN log :
      /\ log[i].ev = "emit" =>
           i > 1 /\ IsBegin(log[i - 1], log[i].step, log[i].run)
      /\ (log[i].ev = "begin" /\ i > 1) => log[i - 1].ev = "emit"
      /\ (log[i].ev = "begin" /\ log[i].step = CertStep) =>
           i > 1 /\ IsEmit(log[i - 1], ConfigStep, log[i].run)
                 /\ log[i - 1].passed

\* C3: exactly one signal per begun step.  Every step the worker began has
\* emitted exactly one signal, directly after it began, by the time check()
\* is left; only the step still executing has none yet.
C3_ExactlyOnce ==
    \A i \in DOMAIN log :
      log[i].ev = "begin" =>
        IF i = Len(log)
        THEN InStep
        ELSE /\ IsEmit(log[i + 1], log[i].step, log[i].run)
             /\ (i + 2 \in DOMAIN log => log[i + 2].ev = "begin")

\* C4: exception containment.  run() never ends because an exception left a
\* step: every exception raised in a step becomes its passed=false result.
C4_NoEscape ==
    exitCause # "exception"

\* C5: set_should_quit is synchronous.  From its return until the next
\* start() the cancellation flag is set and the worker thread is not
\* running, so no step begins and no signal is emitted, whatever is queued
\* or configured meanwhile.
C5_StopIsSynchronous ==
    stopped => shouldQuit /\ wpc = "off"

\* C5 witness: set_should_quit returned after the running worker observed
\* the flag, with steps still queued.
C5_Witness ==
    /\ stopped
    /\ exitCause = "quit"
    /\ Len(checks) > 0
    /\ opc = "idle"

\* C7: a queue installed by run_eip_setup_checks while a step is in flight
\* survives that step: when the worker clears the queue after a failure,
\* the queue holds no step of a run other than the failed step's own.
C7_InstalledQueueKept ==
    [][(wpc = "clear" /\ wpc' = "with_exit")
         => \A i \in DOMAIN checks : checks[i].run = check.run]_vars

\* C8: the step in flight reads one and the same provider context during
\* its whole execution.
C8_StableContext ==
    Cardinality(seenProv) <= 1

\* C9: no lock is held while a step executes its network or file calls, and
\* run_eip_setup_checks never waits for the queue lock held by a running
\* step.
C9_NoLockAcrossIO ==
    /\ wpc \in IOPcs => checksLock # Worker /\ quitLock # Worker
    /\ ~(opc = "rc_locker" /\ InStep /\ checksLock = Worker)

\* C10: a failing step does not end the worker.  After a step's failure
\* (until a queue is installed again) the queue is empty once cleared and
\* the thread is alive unless it observed the cancellation flag; run()
\* returns only by observing the flag at the top of an iteration.
C10_WorkerSurvivesFailure ==
    /\ (failedSince /\ wpc \notin {"ret", "clear"}) => checks = <<>>
    /\ (failedSince /\ wpc = "off") => exitCause = "quit"
    /\ wpc = "off" => exitCause \in {"none", "quit"}

\* C6: restart.  A run_eip_setup_checks called after the last run was over,
\* followed by start(), with no further call by the owner, produces a whole
\* new run: download_config of the new run emits its signal and, if it
\* passed, download_client_certificate of the new run emits its signal
\* after it; no signal of a run is emitted twice.
RunNotified(r) ==
    \E i \in DOMAIN log :
      /\ IsEmit(log[i], ConfigStep, r)
      /\ log[i].passed =>
           \E j \in DOMAIN log : j > i /\ IsEmit(log[j], CertStep, r)
NoDuplicateSignal ==
    \A i, j \in DOMAIN log :
      (log[i].ev = "emit" /\ log[i] = log[j]) => i = j
C6_Restart ==
    /\ []NoDuplicateSignal
    /\ \A r \in 1..MaxRuns :
         <>[](restart = <<"started", r>>) => <>RunNotified(r)

\* C11: cancellation does not disturb the step in flight.  When
\* set_should_quit set the flag while a step was executing, that step emits
\* its one signal, no other step begins, run() returns by observing the
\* flag at the top of its next iteration, and nothing else is logged until
\* start() is called.
C11_CancelKeepsStep ==
    quitAt > 0 =>
      /\ Len(log) <= quitAt + 1
      /\ log[quitAt].ev = "begin"
      /\ Len(log) = quitAt + 1 =>
           IsEmit(log[quitAt + 1], log[quitAt].step, log[quitAt].run)
      /\ wpc = "off" => Len(log) = quitAt + 1 /\ exitCause = "quit"
      /\ ~InStep => Len(log) = quitAt + 1

\* C12: set_should_quit terminates.  With the worker scheduled fairly,
\* every set_should_quit call that has passed line 88 returns, whatever the
\* worker is doing when the flag is set.
C12_StopReturns ==
    (opc = "sq_write") ~> (opc = "idle" /\ stopped)

\* C12 witness: a set_should_quit call made while a step was executing has
\* returned.
C12_Witness ==
    /\ stopped
    /\ quitAt > 0
    /\ opc = "idle"

\* C13: run_eip_setup_checks with an empty provider context fails its
\* assertion and does nothing: the queue, the stored provider context, the
\* flag and the worker are as before, and no statement after line 230 runs
\* with an empty argument.
C13_RejectsEmptyProvider ==
    /\ [](opc \in {"rc_provider", "rc_flag", "rc_locker", "rc_checks"}
            => argProvider # None)
    /\ [][(opc = "rc_assert" /\ argProvider = None /\ opc' # opc)
            => /\ opc' = "idle"
               /\ UNCHANGED <<checks, providerConfig, downloadIfNeeded, wpc,
                              nruns, log, shouldQuit>>]_vars

\* C13 witness: after a queue was installed, a call with an empty provider
\* context has returned.
C13_Witness ==
    /\ opc = "idle"
    /\ argProvider = None
    /\ nruns > 0
    /\ providerConfig # None

\* C14: skip idempotence.  A step that finds download_if_needed set and its
\* artifact present goes straight to its signal with passed=true and an
\* empty error, having made no session.get call and leaving the files as
\* they are; so does every later execution.
C14_SkipIdempotent ==
    /\ []((wpc \in {"dc_emit", "cc_emit"} /\ netCalls = 0) => data = Passed)
    /\ [][(/\ wpc = "dc_skip" /\ wpc' # wpc
           /\ downloadIfNeeded /\ ConfigFile(providerConfig) \in disk)
            => /\ wpc' = "dc_emit" /\ data' = Passed
               /\ netCalls' = 0 /\ disk' = disk]_vars
    /\ [][(/\ wpc = "cc_skip" /\ wpc' # wpc
           /\ downloadIfNeeded /\ clientCertPath \in disk)
            => /\ wpc' = "cc_emit" /\ data' = Passed
               /\ netCalls' = 0 /\ disk' = disk]_vars
    /\ [][(wpc \in {"dc_emit", "cc_emit"} /\ wpc' # wpc /\ netCalls = 0)
            => /\ disk' = disk
               /\ log'[Len(log')].ev = "emit" /\ log'[Len(log')].passed]_vars

\* C14 witness: download_client_certificate skipped, after download_config
\* of the same run skipped too.
C14_Witness ==
    /\ wpc = "cc_emit"
    /\ netCalls = 0
    /\ ~eipConfig.loaded
    /\ eipConfig.run = check.run

\* C15: queue invariant.  The queue is empty, or [certificate], or
\* [config, certificate] of one run, the lone certificate step being queued
\* only after the config step of its run began; and a step executes only
\* on the worker, which then holds the queue lock and one popped check.
C15_QueueInvariant ==
    /\ \/ checks = <<>>
       \/ /\ Len(checks) = 1
          /\ checks[1].step = CertStep
          /\ \E i \in DOMAIN log : IsBegin(log[i], ConfigStep, checks[1].run)
       \/ /\ Len(checks) = 2
          /\ checks[1].step = ConfigStep
          /\ checks[2].step = CertStep
          /\ checks[1].run = checks[2].run
    /\ InStep => checksLock = Worker /\ check # NoCheck
    /\ wpc \in {"off", "gsq_locker", "gsq_read", "with_enter", "len", "pop",
                "sleep"} => check = NoCheck

\* C15 witness: download_config executes while the certificate step of its
\* run waits in the queue.
C15_Witness ==
    /\ InStep
    /\ check.step = ConfigStep
    /\ checks = <<[step |-> CertStep, run |-> check.run]>>

\* C16: the assertions at the head of the steps hold whenever a step
\* begins: the provider context is set, and for
\* download_client_certificate the derived configuration is present.
C16_StepPreconditions ==
    /\ wpc = "dc_assert" => providerConfig # None
    /\ wpc = "cc_assert" => providerConfig # None /\ eipConfig.present

\* C16 witness: download_client_certificate of a second run begins.
C16_Witness ==
    /\ wpc = "cc_assert"
    /\ check.run = 2
    /\ eipConfig.present

\* Worker positions inside _download_client_certificates.
CertPcs == {"cc_assert", "cc_path", "cc_skip", "cc_get", "cc_write", "cc_emit"}
\* download_config of a run passed and the certificate step of that run is
\* still to run or running.
PastConfigStep ==
    \/ wpc \in CertPcs
    \/ /\ Len(log) > 0
       /\ log[Len(log)].ev = "emit"
       /\ log[Len(log)].step = ConfigStep
       /\ log[Len(log)].passed
       /\ checks = <<[step |-> CertStep, run |-> log[Len(log)].run]>>

\* C17: once execution is past download_config, the provider context and
\* the derived configuration stay as they are until the certificate step
\* is over, and the certificate step works with the derived configuration
\* of its own run, fetched from the provider context it uses.
C17_ContextFrozenAfterConfig ==
    /\ [](wpc \in CertPcs
            => /\ eipConfig.run = check.run
               /\ eipConfig.loaded => providerConfig = eipConfig.domain)
    /\ [][(PastConfigStep /\ PastConfigStep')
            => /\ providerConfig' = providerConfig
               /\ eipConfig' = eipConfig]_vars

\* C18 as claimed: the derived configuration is absent until a
\* download_config has passed, and a download_config that reports
\* passed=false leaves the derived configuration of before the step.
C18_LifetimeFromPass ==
    /\ (/\ ~\E i \in DOMAIN log :
              log[i].ev = "emit" /\ log[i].step = ConfigStep /\ log[i].passed
        /\ ~(InStep /\ check.step = ConfigStep))
         => ~eipConfig.present
    /\ (wpc = "ret" /\ check.step = ConfigStep /\ ~data.passed)
         => eipConfig.run # check.run

\* C18 amended: the derived configuration is absent until a download_config
\* has begun; every download_config replaces it by a fresh descriptor of
\* its own at its start (line 119), which is what the step leaves behind,
\* also when it reports passed=false.
C18_LifetimeFromStart ==
    /\ eipConfig.present
         => \E i \in DOMAIN log : IsBegin(log[i], ConfigStep, eipConfig.run)
    /\ (\/ wpc \in {"dc_skip", "dc_get", "dc_load", "dc_save", "dc_emit"}
        \/ wpc \in {"ret", "clear", "with_exit"} /\ check.step = ConfigStep)
         => eipConfig.present /\ eipConfig.run = check.run

\* C18 witness: download_config of the second run reported passed=false and
\* left its own fresh descriptor in place of the first run's.
C18_Witness ==
    /\ wpc = "ret"
    /\ check = [step |-> ConfigStep, run |-> 2]
    /\ ~data.passed
    /\ eipConfig.run = 2
    /\ \E i \in DOMAIN log : IsEmit(log[i], ConfigStep, 1) /\ log[i].passed

\* C19: lock discipline.  The queue is read and written only by a thread
\* holding _checks_lock, and should_quit only by a thread holding
\* _should_quit_lock.
C19_LockDiscipline ==
    /\ wpc \in {"len", "pop", "clear"} => checksLock = Worker
    /\ opc = "rc_checks" => checksLock = Owner
    /\ wpc = "gsq_read" => quitLock = Worker
    /\ opc = "sq_write" => quitLock = Owner
    /\ opc = "st_write" => quitLock = Owner

\* C20: set_should_quit and start() leave the queue (and the stored
\* context, the descriptor and the files) alone; start() only clears the
\* flag and launches run() when it is not running; the first step run()
\* executes after a launch is the head of the queue left behind, unless a
\* newer queue was installed meanwhile.
C20_StopStartKeepQueue ==
    /\ [][((\/ opc \in {"sq_write", "sq_wait", "st_write", "st_thread"}
            \/ opc = "idle" /\ opc' \in {"sq_write", "st_write"})
           /\ opc' # opc)
            => UNCHANGED <<checks, providerConfig, downloadIfNeeded,
                           eipConfig, disk, log>>]_vars
    /\ [][(opc = "st_write" /\ opc' # opc)
            => ~shouldQuit' /\ wpc' = wpc]_vars
    /\ [][(opc = "st_thread" /\ opc' # opc)
            => /\ shouldQuit' = shouldQuit
               /\ wpc' = IF wpc = "off" THEN "gsq_locker" ELSE wpc]_vars
    /\ []((resumeHead # NoCheck /\ check # NoCheck)
            => check = resumeHead \/ check.run > resumeHead.run)

\* C20 witness: run() was launched with only the certificate step left in
\* the queue and executes it, no download_config before it.
C20_Witness ==
    /\ resumeHead.step = CertStep
    /\ wpc = "cc_assert"
    /\ check = resumeHead

====
